---- MODULE Spec2Model ----
(***************************************************************************)
(* Scan orchestration and motor link of Traffic_Control.py: the continuous *)
(* scan loop, one 4-sided scan cycle (capture, turn, wait for TURN_DONE,   *)
(* settle), the analysis and priority decision, and the playback that      *)
(* yields the continue/stop flag.  The Arduino is the environment: it puts *)
(* lines into the serial receive buffer at any time.                       *)
(***************************************************************************)
EXTENDS Integers, Sequences, FiniteSets, TLC

\* Largest vehicle count the detector returns for a frame in the scan loop.
MaxCount == 1
\* Largest vehicle count of a frame in the stand-alone decision runs.
MaxVehicles == 5
\* Number of 100 ms polls that fit into the 10 s wait budget (scaled down).
MaxPolls == 3
\* Lines the serial receive buffer holds at most.
MaxRx == 2
\* Largest cycle_count the continuous loop is followed to.
MaxCycles == 3
\* Unfinished turns of the motor that are followed at most.
MaxPending == 2
\* Console lines entered and not yet read, at most.
MaxKb == 1
\* Commands one calibration session is followed to.
MaxCalibSent == 2
\* Quadrants off the start orientation from which a run is still started.
MaxRigRotation == 3

\* capture_image_from_esp32 returns None on any failure; a decoded frame is
\* modelled by the number of vehicle boxes the detector finds in it.
None == -1

\* read_arduino_response returns None when no non-empty line was read.
NoResponse == "<None>"

\* Lines the Arduino writes: the acknowledgement, an informational line and
\* a blank line (which strip() turns into the empty string).
ArduinoLines == {"TURN_DONE", "INFO", ""}

Sides == 1..4

\* The lines the Arduino writes unasked.
InfoLines == ArduinoLines \ {"TURN_DONE"}

\* The commands that make the motor turn one quadrant.
TurnCommands == {"T", "R"}

VARIABLES
    pc,                           \* position of the single control thread
    ser_is_open,                  \* ser and ser.is_open
    rx,                           \* serial receive buffer, one entry per line
    cycle_count,                  \* run_continuous_scan_loop: cycle_count
    is_clockwise,                 \* run_continuous_scan_loop: is_clockwise
    scan_is_clockwise,            \* perform_full_scan: parameter is_clockwise
    i,                            \* perform_full_scan: index of the for loop
    captured_raw_images_data,     \* perform_full_scan: list of (side, img)
    side_vehicle_counts,          \* perform_full_scan: dict, in insertion order
    sorted_sides,                 \* perform_full_scan: sorted (side, count) items
    saved_annotated_image_paths,  \* global list, one entry per annotated side
    turn_done,                    \* perform_full_scan: turn_done of the wait
    response,                     \* perform_full_scan: last value read in the wait
    polls,                        \* 100 ms sleeps made in the current wait
    should_continue,              \* value perform_full_scan returned last
    sent,                         \* commands written to the link in this call
    reads,                        \* read_arduino_response calls of the current wait
    settles,                      \* settle delays slept in this call
    stop_requested,               \* the user holds ESC or q down to stop the loop
    kb,                           \* console lines entered and not yet read
    camera_up,                    \* the ESP32-CAM answers requests
    calib_output,                 \* calibration_mode: message printed for the last line
    info_log,                     \* "Arduino: ..." lines printed in the current wait
    motor_turns,                  \* turn commands the motor has not finished yet
    rx_fresh,                     \* per line of rx: TURN_DONE of the latest turn command
    net_rotation,                 \* 'T' minus 'R' written since the run started
    rig_rotation                  \* 'T' minus 'R' written since the program started

vars == <<pc, ser_is_open, rx, cycle_count, is_clockwise, scan_is_clockwise, i,
          captured_raw_images_data, side_vehicle_counts, sorted_sides,
          saved_annotated_image_paths, turn_done, response, polls,
          should_continue, sent, reads, settles, stop_requested, kb,
          camera_up, calib_output, info_log, motor_turns, rx_fresh,
          net_rotation, rig_rotation>>

-----------------------------------------------------------------------------
(* Helpers of the motor link.                                              *)

\* send_arduino_command: the command is written when the link is open,
\* otherwise only a message is printed.  The result is the log of writes.
send_arduino_command(log, command) ==
    IF ser_is_open THEN Append(log, command) ELSE log

\* read_arduino_response: the value returned for receive buffer buf.
read_arduino_response(buf) ==
    IF ser_is_open /\ Len(buf) > 0 /\ Head(buf) # ""
    THEN Head(buf)
    ELSE NoResponse

\* read_arduino_response: the receive buffer left behind (readline consumes
\* one line when in_waiting > 0).
rx_after_read(buf) ==
    IF ser_is_open /\ Len(buf) > 0 THEN Tail(buf) ELSE buf

\* The motor's unfinished turns after a command: a turn command written to
\* the open link adds one (beyond MaxPending the oldest is not followed).
motor_after_send(n, command) ==
    IF ser_is_open /\ command \in TurnCommands
    THEN IF n < MaxPending THEN n + 1 ELSE MaxPending
    ELSE n

\* The marks of the lines in the buffer after a command: once a turn command
\* is written, no line in the buffer answers the latest turn command.
fresh_after_send(marks, command) ==
    IF ser_is_open /\ command \in TurnCommands
    THEN [n \in 1..Len(marks) |-> FALSE]
    ELSE marks

\* 'T' written minus 'R' written, after a command.
rotation_after_send(net, command) ==
    IF ~ser_is_open THEN net
    ELSE IF command = "T" THEN net + 1
    ELSE IF command = "R" THEN net - 1
    ELSE net

\* Variant: a line that is not TURN_DONE is dropped without a print.
log_after_read_silent(log, resp) == log

\* The wait loop's elif response: print(f"Arduino: {response}").
log_after_read(log, resp) ==
    IF resp # "TURN_DONE" /\ resp # NoResponse THEN Append(log, resp) ELSE log

\* capture_image_from_esp32: None on a timeout, transport or decode error,
\* else the frame; no frame comes from a camera that does not answer.
CaptureOutcomes ==
    IF camera_up THEN {None} \cup (0..MaxCount) ELSE {None}

-----------------------------------------------------------------------------
(* Helpers of perform_full_scan.                                           *)

\* Variant: the Reverse numbering is one off.
current_side_off_by_one(clockwise, idx) ==
    IF clockwise THEN 3 - idx ELSE idx + 1

\* Variant: the sides are labelled 1, 2, 3, 4 in both directions.
current_side_forward_labels(clockwise, idx) == idx + 1

\* current_side = (4 - i) if is_clockwise else (i + 1)
current_side(clockwise, idx) == IF clockwise THEN 4 - idx ELSE idx + 1

\* Variant: the forward turn whatever the direction.
turn_command_always_forward(clockwise) == "T"

\* turn_command = 'R' if is_clockwise else 'T'
turn_command(clockwise) == IF clockwise THEN "R" ELSE "T"

\* d[k] = v on a dict kept as the sequence of its items in insertion order:
\* an existing key keeps its place, a new key goes last.
DictSet(d, k, v) ==
    IF \E n \in 1..Len(d) : d[n][1] = k
    THEN [n \in 1..Len(d) |-> IF d[n][1] = k THEN <<k, v>> ELSE d[n]]
    ELSE Append(d, <<k, v>>)

\* process_and_annotate_image: the count returned for a decoded frame.
process_and_annotate_image(img) == img

\* Variant: a failed capture gets no entry.
RECURSIVE AnalyseCountsSkipFailed(_)
AnalyseCountsSkipFailed(data) ==
    IF data = <<>> THEN <<>>
    ELSE LET last == data[Len(data)]
             rest == AnalyseCountsSkipFailed(SubSeq(data, 1, Len(data) - 1))
         IN IF last[2] # None
            THEN DictSet(rest, last[1], process_and_annotate_image(last[2]))
            ELSE rest

\* The analysis loop over captured_raw_images_data: side_vehicle_counts.
RECURSIVE AnalyseCounts(_)
AnalyseCounts(data) ==
    IF data = <<>> THEN <<>>
    ELSE LET last == data[Len(data)]
             rest == AnalyseCounts(SubSeq(data, 1, Len(data) - 1))
         IN IF last[2] # None
            THEN DictSet(rest, last[1], process_and_annotate_image(last[2]))
            ELSE DictSet(rest, last[1], 0)

\* The analysis loop: the paths process_and_annotate_image appends to
\* saved_annotated_image_paths, one per analysed frame, named by the side.
RECURSIVE AnalysePaths(_)
AnalysePaths(data) ==
    IF data = <<>> THEN <<>>
    ELSE LET last == data[Len(data)]
             rest == AnalysePaths(SubSeq(data, 1, Len(data) - 1))
         IN IF last[2] # None THEN Append(rest, last[1]) ELSE rest

\* Variant: an item goes in front of the items of equal count.
RECURSIVE InsertDescendingUnstable(_, _)
InsertDescendingUnstable(s, item) ==
    IF s = <<>> THEN <<item>>
    ELSE IF Head(s)[2] > item[2]
         THEN <<Head(s)>> \o InsertDescendingUnstable(Tail(s), item)
         ELSE <<item>> \o s

\* One insertion of the stable descending sort: item goes behind every item
\* whose count is not smaller.
RECURSIVE InsertDescending(_, _)
InsertDescending(s, item) ==
    IF s = <<>> THEN <<item>>
    ELSE IF Head(s)[2] >= item[2]
         THEN <<Head(s)>> \o InsertDescending(Tail(s), item)
         ELSE <<item>> \o s

\* sorted(items, key=lambda item: item[1], reverse=True): stable.
RECURSIVE sorted(_)
sorted(items) ==
    IF items = <<>> THEN <<>>
    ELSE InsertDescending(sorted(SubSeq(items, 1, Len(items) - 1)),
                          items[Len(items)])

\* str(side) for a side 1..4.
str(side) == <<"1", "2", "3", "4">>[side]

\* "".join([str(side) for side, count in sorted_sides])
RECURSIVE priority_order_str(_)
priority_order_str(items) ==
    IF items = <<>> THEN ""
    ELSE str(Head(items)[1]) \o priority_order_str(Tail(items))

\* The log of writes after the decision: "O" + order is sent unless the
\* order string is empty.
SendPriority(log, items) ==
    IF priority_order_str(items) # ""
    THEN send_arduino_command(log, "O" \o priority_order_str(items))
    ELSE log

-----------------------------------------------------------------------------
(* Initial state: the main menu.  ser is None until the connection is set  *)
(* up (module level), and stays open once it is.                           *)

Init ==
    /\ pc = "menu"
    /\ ser_is_open \in BOOLEAN
    /\ rx = <<>>
    /\ cycle_count = 1
    /\ is_clockwise = FALSE
    /\ scan_is_clockwise = FALSE
    /\ i = 0
    /\ captured_raw_images_data = <<>>
    /\ side_vehicle_counts = <<>>
    /\ sorted_sides = <<>>
    /\ saved_annotated_image_paths = <<>>
    /\ turn_done = FALSE
    /\ response = NoResponse
    /\ polls = 0
    /\ should_continue = TRUE
    /\ sent = <<>>
    /\ reads = 0
    /\ settles = 0
    /\ stop_requested = FALSE
    /\ kb = <<>>
    /\ camera_up = TRUE
    /\ calib_output = ""
    /\ info_log = <<>>
    /\ motor_turns = 0
    /\ rx_fresh = <<>>
    /\ net_rotation = 0
    /\ rig_rotation = 0

-----------------------------------------------------------------------------
(* main: the menu.                                                         *)

\* choice == 'S': run_continuous_scan_loop starts with cycle 1, Forward.
MenuStartScan ==
    /\ pc = "menu"
    /\ rig_rotation <= MaxRigRotation
    /\ UNCHANGED rig_rotation
    /\ cycle_count' = 1
    /\ is_clockwise' = FALSE
    /\ stop_requested' = FALSE
    /\ net_rotation' = 0
    /\ pc' = "loop"
    /\ UNCHANGED <<ser_is_open, rx, scan_is_clockwise, i,
                   captured_raw_images_data, side_vehicle_counts, sorted_sides,
                   saved_annotated_image_paths, turn_done, response, polls,
                   should_continue, sent, reads, settles>>
    /\ UNCHANGED <<kb, camera_up, calib_output, info_log, motor_turns,
                   rx_fresh>>

\* choice == 'Q': the menu loop ends and cleanup closes the link.
MenuQuit ==
    /\ pc = "menu"
    /\ pc' = "exit"
    /\ ser_is_open' = FALSE
    /\ UNCHANGED <<rx, cycle_count, is_clockwise, scan_is_clockwise, i,
                   captured_raw_images_data, side_vehicle_counts, sorted_sides,
                   saved_annotated_image_paths, turn_done, response, polls,
                   should_continue, sent, reads, settles>>
    /\ UNCHANGED <<stop_requested, kb, camera_up, calib_output, info_log,
                   motor_turns, rx_fresh, net_rotation,
                   rig_rotation>>

-----------------------------------------------------------------------------
(* perform_full_scan.                                                      *)

\* Variant: the scan starts whether or not the link is open.
StartScanUnguarded ==
    /\ pc = "loop"
    /\ sent' = <<>>
    /\ settles' = 0
    /\ scan_is_clockwise' = is_clockwise
    /\ saved_annotated_image_paths' = <<>>
    /\ captured_raw_images_data' = <<>>
    /\ i' = 0
    /\ pc' = "capture"
    /\ UNCHANGED <<ser_is_open, rx, cycle_count, is_clockwise,
                   side_vehicle_counts, sorted_sides, turn_done, response,
                   polls, reads, should_continue>>
    /\ UNCHANGED <<stop_requested, kb, camera_up, calib_output, info_log,
                   motor_turns, rx_fresh, net_rotation,
                   rig_rotation>>

\* The call from the loop: with the link not open it returns True at once;
\* otherwise the image lists are cleared and the for loop starts at i = 0.
StartScan ==
    /\ pc = "loop"
    /\ sent' = <<>>
    /\ settles' = 0
    /\ IF ~ser_is_open
       THEN /\ should_continue' = TRUE
            /\ pc' = "returned"
            /\ UNCHANGED <<scan_is_clockwise, i, captured_raw_images_data,
                           saved_annotated_image_paths>>
       ELSE /\ scan_is_clockwise' = is_clockwise
            /\ saved_annotated_image_paths' = <<>>
            /\ captured_raw_images_data' = <<>>
            /\ i' = 0
            /\ pc' = "capture"
            /\ UNCHANGED should_continue
    /\ UNCHANGED <<ser_is_open, rx, cycle_count, is_clockwise,
                   side_vehicle_counts, sorted_sides, turn_done, response,
                   polls, reads>>
    /\ UNCHANGED <<stop_requested, kb, camera_up, calib_output, info_log,
                   motor_turns, rx_fresh, net_rotation,
                   rig_rotation>>

\* One pass of the for loop up to the start of the wait: the capture for
\* current_side is appended (None on failure) and, if i < 3, the turn
\* command is sent and the wait starts.
Capture ==
    /\ pc = "capture"
    /\ \E img \in CaptureOutcomes :
          captured_raw_images_data' =
              Append(captured_raw_images_data,
                     <<current_side(scan_is_clockwise, i), img>>)
    /\ IF i < 3
       THEN /\ sent' = send_arduino_command(sent, turn_command(scan_is_clockwise))
            /\ motor_turns' =
                   motor_after_send(motor_turns, turn_command(scan_is_clockwise))
            /\ rx_fresh' =
                   fresh_after_send(rx_fresh, turn_command(scan_is_clockwise))
            /\ net_rotation' =
                   rotation_after_send(net_rotation, turn_command(scan_is_clockwise))
            /\ rig_rotation' =
                   rotation_after_send(rig_rotation, turn_command(scan_is_clockwise))
            /\ turn_done' = FALSE
            /\ polls' = 0
            /\ reads' = 0
            /\ response' = NoResponse
            /\ info_log' = <<>>
            /\ pc' = "wait"
       ELSE /\ pc' = "analyse"
            /\ UNCHANGED <<sent, turn_done, polls, reads, response, info_log,
                           motor_turns, rx_fresh, net_rotation,
                   rig_rotation>>
    /\ UNCHANGED <<ser_is_open, rx, cycle_count, is_clockwise,
                   scan_is_clockwise, i, side_vehicle_counts, sorted_sides,
                   saved_annotated_image_paths, should_continue, settles>>
    /\ UNCHANGED <<stop_requested, kb, camera_up, calib_output>>

\* Variant: TURN_DONE sets turn_done but the loop is not left.
WaitPollNoBreak ==
    /\ pc = "wait"
    /\ polls < MaxPolls
    /\ response' = read_arduino_response(rx)
    /\ rx' = rx_after_read(rx)
    /\ rx_fresh' = rx_after_read(rx_fresh)
    /\ info_log' = log_after_read(info_log, response')
    /\ reads' = reads + 1
    /\ turn_done' = (turn_done \/ response' = "TURN_DONE")
    /\ polls' = polls + 1
    /\ UNCHANGED <<pc, ser_is_open, cycle_count, is_clockwise,
                   scan_is_clockwise, i, captured_raw_images_data,
                   side_vehicle_counts, sorted_sides,
                   saved_annotated_image_paths, should_continue, sent,
                   settles>>
    /\ UNCHANGED <<stop_requested, kb, camera_up, calib_output, motor_turns,
                   net_rotation,
                   rig_rotation>>

\* Variant: a pass that did not read TURN_DONE sends the turn command again.
WaitPollResends ==
    /\ pc = "wait"
    /\ polls < MaxPolls
    /\ response' = read_arduino_response(rx)
    /\ rx' = rx_after_read(rx)
    /\ rx_fresh' = rx_after_read(rx_fresh)
    /\ info_log' = log_after_read(info_log, response')
    /\ reads' = reads + 1
    /\ IF response' = "TURN_DONE"
       THEN /\ turn_done' = TRUE
            /\ pc' = "settle"
            /\ UNCHANGED <<polls, sent>>
       ELSE /\ polls' = polls + 1
            /\ sent' = send_arduino_command(sent, turn_command(scan_is_clockwise))
            /\ UNCHANGED <<turn_done, pc>>
    /\ UNCHANGED <<ser_is_open, cycle_count, is_clockwise, scan_is_clockwise,
                   i, captured_raw_images_data, side_vehicle_counts,
                   sorted_sides, saved_annotated_image_paths, should_continue,
                   settles, stop_requested, kb, camera_up, calib_output,
                   motor_turns, net_rotation,
                   rig_rotation>>

\* One pass of the wait loop while the budget lasts: a line is read; on
\* TURN_DONE the loop is left, otherwise 100 ms are slept.
WaitPoll ==
    /\ pc = "wait"
    /\ polls < MaxPolls
    /\ response' = read_arduino_response(rx)
    /\ rx' = rx_after_read(rx)
    /\ rx_fresh' = rx_after_read(rx_fresh)
    /\ info_log' = log_after_read(info_log, response')
    /\ reads' = reads + 1
    /\ IF response' = "TURN_DONE"
       THEN /\ turn_done' = TRUE
            /\ pc' = "settle"
            /\ UNCHANGED polls
       ELSE /\ polls' = polls + 1
            /\ UNCHANGED <<turn_done, pc>>
    /\ UNCHANGED <<ser_is_open, cycle_count, is_clockwise, scan_is_clockwise,
                   i, captured_raw_images_data, side_vehicle_counts,
                   sorted_sides, saved_annotated_image_paths, should_continue,
                   sent, settles>>
    /\ UNCHANGED <<stop_requested, kb, camera_up, calib_output, motor_turns,
                   net_rotation,
                   rig_rotation>>

\* Variant: after a timeout the next capture starts without the settle delay.
WaitTimeoutNoSettle ==
    /\ pc = "wait"
    /\ polls >= MaxPolls
    /\ i' = i + 1
    /\ response' = NoResponse
    /\ polls' = 0
    /\ reads' = 0
    /\ info_log' = <<>>
    /\ pc' = "capture"
    /\ UNCHANGED <<ser_is_open, rx, cycle_count, is_clockwise,
                   scan_is_clockwise, captured_raw_images_data,
                   side_vehicle_counts, sorted_sides,
                   saved_annotated_image_paths, turn_done, should_continue,
                   sent, settles>>
    /\ UNCHANGED <<stop_requested, kb, camera_up, calib_output, motor_turns,
                   rx_fresh, net_rotation,
                   rig_rotation>>

\* Variant: the wait loop has no budget, it polls until TURN_DONE is read.
WaitTimeoutKeepsPolling ==
    /\ pc = "wait"
    /\ polls >= MaxPolls
    /\ response' = read_arduino_response(rx)
    /\ rx' = rx_after_read(rx)
    /\ rx_fresh' = rx_after_read(rx_fresh)
    /\ info_log' = <<>>
    /\ IF response' = "TURN_DONE"
       THEN turn_done' = TRUE /\ pc' = "settle"
       ELSE UNCHANGED <<turn_done, pc>>
    /\ UNCHANGED <<ser_is_open, cycle_count, is_clockwise, scan_is_clockwise,
                   i, captured_raw_images_data, side_vehicle_counts,
                   sorted_sides, saved_annotated_image_paths, polls,
                   should_continue, sent, reads, settles, stop_requested, kb,
                   camera_up, calib_output, motor_turns, net_rotation,
                   rig_rotation>>

\* The wait loop's condition fails: the budget is used up, turn_done is
\* still False and a warning is printed.
WaitTimeout ==
    /\ pc = "wait"
    /\ polls >= MaxPolls
    /\ pc' = "settle"
    /\ UNCHANGED <<ser_is_open, rx, cycle_count, is_clockwise,
                   scan_is_clockwise, i, captured_raw_images_data,
                   side_vehicle_counts, sorted_sides,
                   saved_annotated_image_paths, turn_done, response, polls,
                   should_continue, sent, reads, settles>>
    /\ UNCHANGED <<stop_requested, kb, camera_up, calib_output, info_log,
                   motor_turns, rx_fresh, net_rotation,
                   rig_rotation>>

\* time.sleep(DELAY_BETWEEN_TURNS), then the next pass of the for loop.
Settle ==
    /\ pc = "settle"
    /\ settles' = settles + 1
    /\ i' = i + 1
    /\ response' = NoResponse
    /\ polls' = 0
    /\ reads' = 0
    /\ info_log' = <<>>
    /\ pc' = "capture"
    /\ UNCHANGED <<ser_is_open, rx, cycle_count, is_clockwise,
                   scan_is_clockwise, captured_raw_images_data,
                   side_vehicle_counts, sorted_sides,
                   saved_annotated_image_paths, turn_done, should_continue,
                   sent>>
    /\ UNCHANGED <<stop_requested, kb, camera_up, calib_output, motor_turns,
                   rx_fresh, net_rotation,
                   rig_rotation>>

\* The analysis phase and the decision: the counts per side, the sorted
\* items and the priority command.
AnalyseAndDecide ==
    /\ pc = "analyse"
    /\ side_vehicle_counts' = AnalyseCounts(captured_raw_images_data)
    /\ saved_annotated_image_paths' =
           saved_annotated_image_paths \o AnalysePaths(captured_raw_images_data)
    /\ sorted_sides' = sorted(side_vehicle_counts')
    /\ sent' = SendPriority(sent, sorted_sides')
    /\ pc' = "playback"
    /\ UNCHANGED <<ser_is_open, rx, cycle_count, is_clockwise,
                   scan_is_clockwise, i, captured_raw_images_data, turn_done,
                   response, polls, should_continue, reads, settles>>
    /\ UNCHANGED <<stop_requested, kb, camera_up, calib_output, info_log,
                   motor_turns, rx_fresh, net_rotation,
                   rig_rotation>>

\* Variant: the key pressed during the playback is not looked at.
PlaybackIgnoresKey ==
    /\ pc = "playback"
    /\ should_continue' = TRUE
    /\ captured_raw_images_data' = <<>>
    /\ side_vehicle_counts' = <<>>
    /\ sorted_sides' = <<>>
    /\ i' = 0
    /\ turn_done' = FALSE
    /\ pc' = "returned"
    /\ UNCHANGED <<ser_is_open, rx, cycle_count, is_clockwise,
                   scan_is_clockwise, saved_annotated_image_paths, response,
                   polls, sent, reads, settles, stop_requested, kb, camera_up,
                   calib_output, info_log, motor_turns, rx_fresh,
                   net_rotation,
                   rig_rotation>>

\* The playback and the return: the flag is False only if an annotated
\* image was shown and ESC or q was pressed on it (waitKey sees the key the
\* user holds down).  The locals end here.
Playback ==
    /\ pc = "playback"
    /\ LET stop_key == stop_requested
       IN should_continue' = ~(saved_annotated_image_paths # <<>> /\ stop_key)
    /\ captured_raw_images_data' = <<>>
    /\ side_vehicle_counts' = <<>>
    /\ sorted_sides' = <<>>
    /\ i' = 0
    /\ turn_done' = FALSE
    /\ pc' = "returned"
    /\ UNCHANGED <<ser_is_open, rx, cycle_count, is_clockwise,
                   scan_is_clockwise, saved_annotated_image_paths, response,
                   polls, sent, reads, settles>>
    /\ UNCHANGED <<stop_requested, kb, camera_up, calib_output, info_log,
                   motor_turns, rx_fresh, net_rotation,
                   rig_rotation>>

-----------------------------------------------------------------------------
(* run_continuous_scan_loop after perform_full_scan returned.              *)

\* Variant: the break comes after the flip and the count.
LoopStopCountsCycle ==
    /\ pc = "returned"
    /\ ~should_continue
    /\ stop_requested' = FALSE
    /\ is_clockwise' = ~is_clockwise
    /\ cycle_count' = cycle_count + 1
    /\ pc' = "menu"
    /\ UNCHANGED <<ser_is_open, rx, scan_is_clockwise, i,
                   captured_raw_images_data, side_vehicle_counts, sorted_sides,
                   saved_annotated_image_paths, turn_done, response, polls,
                   should_continue, sent, reads, settles, kb, camera_up,
                   calib_output, info_log, motor_turns, rx_fresh,
                   net_rotation,
                   rig_rotation>>

\* not should_continue: break, back to the menu.
LoopStop ==
    /\ pc = "returned"
    /\ ~should_continue
    /\ stop_requested' = FALSE
    /\ pc' = "menu"
    /\ UNCHANGED <<ser_is_open, rx, cycle_count, is_clockwise,
                   scan_is_clockwise, i, captured_raw_images_data,
                   side_vehicle_counts, sorted_sides,
                   saved_annotated_image_paths, turn_done, response, polls,
                   should_continue, sent, reads, settles>>
    /\ UNCHANGED <<kb, camera_up, calib_output, info_log, motor_turns,
                   rx_fresh, net_rotation,
                   rig_rotation>>

\* Variant: the cycle is counted but the direction is kept.
LoopContinueNoFlip ==
    /\ pc = "returned"
    /\ should_continue
    /\ cycle_count < MaxCycles
    /\ cycle_count' = cycle_count + 1
    /\ pc' = "loop"
    /\ UNCHANGED <<ser_is_open, rx, is_clockwise, scan_is_clockwise, i,
                   captured_raw_images_data, side_vehicle_counts, sorted_sides,
                   saved_annotated_image_paths, turn_done, response, polls,
                   should_continue, sent, reads, settles>>
    /\ UNCHANGED <<stop_requested, kb, camera_up, calib_output, info_log,
                   motor_turns, rx_fresh, net_rotation,
                   rig_rotation>>

\* Otherwise: sleep DELAY_BETWEEN_CYCLES, flip the direction, count the cycle.
LoopContinue ==
    /\ pc = "returned"
    /\ should_continue
    /\ cycle_count < MaxCycles
    /\ is_clockwise' = ~is_clockwise
    /\ cycle_count' = cycle_count + 1
    /\ pc' = "loop"
    /\ UNCHANGED <<ser_is_open, rx, scan_is_clockwise, i,
                   captured_raw_images_data, side_vehicle_counts, sorted_sides,
                   saved_annotated_image_paths, turn_done, response, polls,
                   should_continue, sent, reads, settles>>
    /\ UNCHANGED <<stop_requested, kb, camera_up, calib_output, info_log,
                   motor_turns, rx_fresh, net_rotation,
                   rig_rotation>>

-----------------------------------------------------------------------------
(* calibration_mode.  A console line is the sequence of its words; the     *)
(* characters of a line are read one per pass of the loop and the line is  *)
(* handled in the pass that reads its Enter key.                           *)

\* The lines the user enters.
ConsoleLines ==
    {<<>>, <<"done">>, <<"DONE">>, <<"m", "5">>, <<"M", "-200">>,
     <<"m", "+5">>, <<"m", "x">>, <<"m", "5", "6">>, <<"m">>, <<"xyz">>}

\* str.lower() of a word.
lower(word) ==
    IF word = "DONE" THEN "done" ELSE IF word = "M" THEN "m" ELSE word

\* command_buffer.strip().lower(), word by word.
command_to_process(line) == [n \in 1..Len(line) |-> lower(line[n])]

\* The words int() accepts.
IntLiterals == {"5", "-200", "+5"}

\* int(parts[1])
int(word) ==
    IF word = "5" THEN 5 ELSE IF word = "+5" THEN 5 ELSE 0 - 200

\* f"{steps}"
format_int(n) == IF n = 5 THEN "5" ELSE "-200"

\* command_to_process.startswith('m '): the first word is m and more follows.
starts_with_m(cmd) == Len(cmd) >= 2 /\ cmd[1] = "m"

\* Variant: the number of words of a move line is not checked.
calibration_command_any_length(cmd) ==
    IF starts_with_m(cmd) /\ cmd[2] \in IntLiterals
    THEN "M" \o format_int(int(cmd[2]))
    ELSE ""

\* The command a line makes calibration_mode write ("" for none).
calibration_command(cmd) ==
    IF starts_with_m(cmd) /\ Len(cmd) = 2 /\ cmd[2] \in IntLiterals
    THEN "M" \o format_int(int(cmd[2]))
    ELSE ""

\* The message calibration_mode prints for a line that does not end the
\* session ("" for none).
calibration_message(cmd) ==
    IF starts_with_m(cmd)
    THEN IF Len(cmd) = 2
         THEN IF cmd[2] \in IntLiterals
              THEN ">>> Sent"
              ELSE "ERROR: Invalid steps value."
         ELSE "ERROR: Invalid 'm' command."
    ELSE IF cmd # <<>>
         THEN "ERROR: Unknown command"
         ELSE ""

\* choice == 'C': P is sent, a response is read after 0.5 s, the loop starts.
MenuCalibration ==
    /\ pc = "menu"
    /\ sent' = send_arduino_command(<<>>, "P")
    /\ rx' = rx_after_read(rx)
    /\ rx_fresh' = rx_after_read(rx_fresh)
    /\ kb' = <<>>
    /\ calib_output' = ""
    /\ pc' = "calib"
    /\ UNCHANGED <<ser_is_open, cycle_count, is_clockwise, scan_is_clockwise,
                   i, captured_raw_images_data, side_vehicle_counts,
                   sorted_sides, saved_annotated_image_paths, turn_done,
                   response, polls, should_continue, reads, settles,
                   stop_requested, camera_up, info_log, motor_turns,
                   net_rotation,
                   rig_rotation>>

\* A pass whose capture fails: a message, one second of sleep, continue.
\* The keyboard is not looked at.
CalibPreviewFails ==
    /\ pc = "calib"
    /\ None \in CaptureOutcomes
    /\ UNCHANGED vars

\* A pass that shows a frame and finds 'q' pressed in the window.
CalibQuitKey ==
    /\ pc = "calib"
    /\ CaptureOutcomes # {None}
    /\ pc' = "menu"
    /\ UNCHANGED <<ser_is_open, rx, cycle_count, is_clockwise,
                   scan_is_clockwise, i, captured_raw_images_data,
                   side_vehicle_counts, sorted_sides,
                   saved_annotated_image_paths, turn_done, response, polls,
                   should_continue, sent, reads, settles, stop_requested, kb,
                   camera_up, calib_output, info_log, motor_turns, rx_fresh,
                   net_rotation,
                   rig_rotation>>

\* The passes that show a frame and read the next entered line: done ends
\* the session, a move is sent and a response read after 0.1 s, anything
\* else but a blank line is reported as an error.
CalibLine ==
    /\ pc = "calib"
    /\ CaptureOutcomes # {None}
    /\ kb # <<>>
    /\ LET cmd == command_to_process(Head(kb))
       IN IF cmd = <<"done">>
          THEN /\ pc' = "menu"
               /\ kb' = Tail(kb)
               /\ UNCHANGED <<sent, rx, rx_fresh, calib_output>>
          ELSE /\ pc' = "calib"
               /\ kb' = Tail(kb)
               /\ calib_output' = calibration_message(cmd)
               /\ IF calibration_command(cmd) # ""
                  THEN /\ Len(sent) < MaxCalibSent
                       /\ sent' = send_arduino_command(sent, calibration_command(cmd))
                       /\ rx' = rx_after_read(rx)
                       /\ rx_fresh' = rx_after_read(rx_fresh)
                  ELSE UNCHANGED <<sent, rx, rx_fresh>>
    /\ UNCHANGED <<ser_is_open, cycle_count, is_clockwise, scan_is_clockwise,
                   i, captured_raw_images_data, side_vehicle_counts,
                   sorted_sides, saved_annotated_image_paths, turn_done,
                   response, polls, should_continue, reads, settles,
                   stop_requested, camera_up, info_log, motor_turns,
                   net_rotation,
                   rig_rotation>>

\* The user enters a line on the console.
UserEntersLine ==
    /\ pc = "calib"
    /\ Len(kb) < MaxKb
    /\ \E line \in ConsoleLines : kb' = Append(kb, line)
    /\ UNCHANGED <<pc, ser_is_open, rx, cycle_count, is_clockwise,
                   scan_is_clockwise, i, captured_raw_images_data,
                   side_vehicle_counts, sorted_sides,
                   saved_annotated_image_paths, turn_done, response, polls,
                   should_continue, sent, reads, settles, stop_requested,
                   camera_up, calib_output, info_log, motor_turns, rx_fresh,
                   net_rotation,
                   rig_rotation>>

\* The camera stops or starts answering.
CameraToggles ==
    /\ camera_up' = ~camera_up
    /\ UNCHANGED <<pc, ser_is_open, rx, cycle_count, is_clockwise,
                   scan_is_clockwise, i, captured_raw_images_data,
                   side_vehicle_counts, sorted_sides,
                   saved_annotated_image_paths, turn_done, response, polls,
                   should_continue, sent, reads, settles, stop_requested, kb,
                   calib_output, info_log, motor_turns, rx_fresh,
                   net_rotation,
                   rig_rotation>>

-----------------------------------------------------------------------------
(* The Arduino: it writes an informational or blank line to the open link  *)
(* at any time, and TURN_DONE when the motor has finished a turn.  The      *)
(* user: ESC or q is pressed, and held, at any time while the loop runs (a  *)
(* key pressed in the pause between two cycles is held into the next one). *)

\* The motor finishes its oldest unfinished turn and TURN_DONE is written;
\* it answers the latest turn command if no other turn is unfinished.
MotorFinishes ==
    /\ ser_is_open
    /\ motor_turns > 0
    /\ Len(rx) < MaxRx
    /\ motor_turns' = motor_turns - 1
    /\ rx' = Append(rx, "TURN_DONE")
    /\ rx_fresh' = Append(rx_fresh, motor_turns = 1)
    /\ UNCHANGED <<pc, ser_is_open, cycle_count, is_clockwise,
                   scan_is_clockwise, i, captured_raw_images_data,
                   side_vehicle_counts, sorted_sides,
                   saved_annotated_image_paths, turn_done, response, polls,
                   should_continue, sent, reads, settles, stop_requested, kb,
                   camera_up, calib_output, info_log, net_rotation,
                   rig_rotation>>

UserPressesStop ==
    /\ pc \in {"loop", "capture", "wait", "settle", "analyse", "playback"}
    /\ ~stop_requested
    /\ stop_requested' = TRUE
    /\ UNCHANGED <<pc, ser_is_open, rx, cycle_count, is_clockwise,
                   scan_is_clockwise, i, captured_raw_images_data,
                   side_vehicle_counts, sorted_sides,
                   saved_annotated_image_paths, turn_done, response, polls,
                   should_continue, sent, reads, settles, kb, camera_up,
                   calib_output, info_log, motor_turns, rx_fresh,
                   net_rotation,
                   rig_rotation>>

ArduinoWrites ==
    /\ ser_is_open
    /\ Len(rx) < MaxRx
    /\ \E line \in InfoLines : rx' = Append(rx, line)
    /\ rx_fresh' = Append(rx_fresh, FALSE)
    /\ UNCHANGED <<pc, ser_is_open, cycle_count, is_clockwise,
                   scan_is_clockwise, i, captured_raw_images_data,
                   side_vehicle_counts, sorted_sides,
                   saved_annotated_image_paths, turn_done, response, polls,
                   should_continue, sent, reads, settles>>
    /\ UNCHANGED <<stop_requested, kb, camera_up, calib_output, info_log,
                   motor_turns, net_rotation,
                   rig_rotation>>

Next ==
    \/ MenuStartScan
    \/ MenuQuit
    \/ StartScan
    \/ Capture
    \/ WaitPoll
    \/ WaitTimeout
    \/ Settle
    \/ AnalyseAndDecide
    \/ Playback
    \/ LoopStop
    \/ LoopContinue
    \/ ArduinoWrites
    \/ MotorFinishes
    \/ UserPressesStop

Spec == Init /\ [][Next]_vars

-----------------------------------------------------------------------------
(* One call of perform_full_scan with the link open, in either direction,  *)
(* with the steps of the control thread taken fairly: every step of the    *)
(* call returns (a capture within its request timeout, a poll, a sleep, a  *)
(* display within its duration).                                           *)

InitCycle ==
    /\ pc = "loop"
    /\ ser_is_open = TRUE
    /\ rx = <<>>
    /\ is_clockwise \in BOOLEAN
    /\ cycle_count = IF is_clockwise THEN 2 ELSE 1
    /\ scan_is_clockwise = FALSE
    /\ i = 0
    /\ captured_raw_images_data = <<>>
    /\ side_vehicle_counts = <<>>
    /\ sorted_sides = <<>>
    /\ saved_annotated_image_paths = <<>>
    /\ turn_done = FALSE
    /\ response = NoResponse
    /\ polls = 0
    /\ should_continue = TRUE
    /\ sent = <<>>
    /\ reads = 0
    /\ settles = 0
    /\ stop_requested = FALSE
    /\ kb = <<>>
    /\ camera_up = TRUE
    /\ calib_output = ""
    /\ info_log = <<>>
    /\ motor_turns = 0
    /\ rx_fresh = <<>>
    /\ net_rotation = IF is_clockwise THEN 3 ELSE 0
    /\ rig_rotation = net_rotation

ScanStep ==
    \/ StartScan
    \/ Capture
    \/ WaitPoll
    \/ WaitTimeout
    \/ Settle
    \/ AnalyseAndDecide
    \/ Playback

NextCycle ==
    \/ ScanStep
    \/ ArduinoWrites
    \/ MotorFinishes

SpecCycleFair == InitCycle /\ [][NextCycle]_vars /\ WF_vars(ScanStep)

-----------------------------------------------------------------------------
(* The calibration session entered from the menu with the link open, the   *)
(* camera failing and recovering at any time.  A line entered is read if   *)
(* passes that get a frame keep coming.                                     *)

InitCalibration == Init /\ ser_is_open

NextCalibration ==
    \/ MenuCalibration
    \/ CalibPreviewFails
    \/ CalibQuitKey
    \/ CalibLine
    \/ UserEntersLine
    \/ CameraToggles
    \/ ArduinoWrites

SpecCalibrationFair ==
    InitCalibration /\ [][NextCalibration]_vars /\ SF_vars(CalibLine)

-----------------------------------------------------------------------------
(* The decision on its own: the state after the fourth capture of a cycle, *)
(* for either direction and every outcome of the four captures.            *)

InitDecision ==
    /\ pc = "analyse"
    /\ ser_is_open = TRUE
    /\ rx = <<>>
    /\ scan_is_clockwise \in BOOLEAN
    /\ is_clockwise = scan_is_clockwise
    /\ cycle_count = IF scan_is_clockwise THEN 2 ELSE 1
    /\ i = 3
    /\ \E f \in [1..4 -> {None} \cup (0..MaxVehicles)] :
          captured_raw_images_data =
              [n \in 1..4 |-> <<current_side(scan_is_clockwise, n - 1), f[n]>>]
    /\ side_vehicle_counts = <<>>
    /\ sorted_sides = <<>>
    /\ saved_annotated_image_paths = <<>>
    /\ turn_done \in BOOLEAN
    /\ response = NoResponse
    /\ polls = 0
    /\ should_continue = TRUE
    /\ sent = [n \in 1..3 |-> turn_command(scan_is_clockwise)]
    /\ reads = 0
    /\ settles = 3
    /\ stop_requested = FALSE
    /\ kb = <<>>
    /\ camera_up = TRUE
    /\ calib_output = ""
    /\ info_log = <<>>
    /\ motor_turns = 0
    /\ rx_fresh = <<>>
    /\ net_rotation = IF scan_is_clockwise THEN 0 ELSE 3
    /\ rig_rotation = net_rotation

NextDecision == AnalyseAndDecide

SpecDecision == InitDecision /\ [][NextDecision]_vars

-----------------------------------------------------------------------------
(* Vocabulary of the properties.                                           *)

\* The control positions inside a cycle of perform_full_scan.
InCycle == {"capture", "wait", "settle", "analyse", "playback"}

\* The sides of a sequence of (side, value) items, in order.
SidesOf(items) == [n \in 1..Len(items) |-> items[n][1]]

\* The visit index of side s in the cycle (0 if it was never visited).
VisitIndex(s) ==
    IF \E n \in 1..Len(captured_raw_images_data) :
           captured_raw_images_data[n][1] = s
    THEN CHOOSE n \in 1..Len(captured_raw_images_data) :
           captured_raw_images_data[n][1] = s
    ELSE 0

\* The count of side s as the cycle's captures determine it: the frame's
\* vehicles, 0 for a failed capture.
RecordedCount(s) ==
    LET img == captured_raw_images_data[VisitIndex(s)][2]
    IN IF img = None THEN 0 ELSE img

\* The count side_vehicle_counts holds for side s.
CountOf(s) ==
    LET n == CHOOSE n \in 1..Len(side_vehicle_counts) :
                 side_vehicle_counts[n][1] = s
    IN side_vehicle_counts[n][2]

\* The last command written to the link in this call.
LastSent == sent[Len(sent)]

\* n copies of command c.
Copies(n, c) == [k \in 1..n |-> c]

\* The 24 well-formed priority commands.
PriorityCommands ==
    {"O" \o str(a) \o str(b) \o str(c) \o str(d) :
        <<a, b, c, d>> \in {q \in Sides \X Sides \X Sides \X Sides :
                               {q[1], q[2], q[3], q[4]} = Sides}}

-----------------------------------------------------------------------------
(* C1: after the decision of a cycle, whatever the four counts, the        *)
(* priority order holds each of the sides 1..4 exactly once, in descending *)
(* order of count, and sides of equal count stand in the order in which    *)
(* the cycle visited them.                                                 *)
C1_PriorityOrderStablePermutation ==
    pc = "playback" =>
        /\ Len(sorted_sides) = 4
        /\ {sorted_sides[n][1] : n \in 1..4} = Sides
        /\ \A n \in 1..4 : sorted_sides[n][2] = RecordedCount(sorted_sides[n][1])
        /\ \A m \in 1..4 : \A n \in 1..4 :
              m < n =>
                 \/ sorted_sides[m][2] > sorted_sides[n][2]
                 \/ /\ sorted_sides[m][2] = sorted_sides[n][2]
                    /\ VisitIndex(sorted_sides[m][1]) < VisitIndex(sorted_sides[n][1])

\* A Reverse cycle decided with two sides of equal non-zero count and a
\* failed capture.
C1_Witness ==
    /\ pc = "playback"
    /\ scan_is_clockwise
    /\ \E a \in Sides : \E b \in Sides :
          a # b /\ RecordedCount(a) = RecordedCount(b) /\ RecordedCount(a) > 0
    /\ \E n \in 1..4 : captured_raw_images_data[n][2] = None

(* C2: a cycle started with the link open ends with exactly 4 side-count   *)
(* entries, one for each side 1..4, whatever captures failed; the side of  *)
(* a failed capture has count 0.                                           *)
C2_FourSideCounts ==
    /\ pc \in {"analyse", "playback"} => Len(captured_raw_images_data) = 4
    /\ pc = "playback" =>
          /\ Len(side_vehicle_counts) = 4
          /\ {side_vehicle_counts[n][1] : n \in 1..4} = Sides
          /\ \A n \in 1..4 :
                /\ side_vehicle_counts[n][2] >= 0
                /\ captured_raw_images_data[n][2] = None =>
                      CountOf(captured_raw_images_data[n][1]) = 0

\* A decided cycle in which some captures failed and some succeeded.
C2_Witness ==
    /\ pc = "playback"
    /\ Len(side_vehicle_counts) = 4
    /\ \E n \in 1..4 : captured_raw_images_data[n][2] = None
    /\ \E n \in 1..4 : captured_raw_images_data[n][2] > 0

(* C3: when all 4 captures of a cycle fail, Forward or Reverse, all counts *)
(* are 0 and the command sent is O1234.                                    *)
C3_AllFailedGivesO1234 ==
    (/\ pc = "playback"
     /\ \A n \in 1..4 : captured_raw_images_data[n][2] = None)
    => /\ \A n \in 1..4 : side_vehicle_counts[n][2] = 0
       /\ LastSent = "O1234"

\* The command a Forward cycle sends for the counts this cycle recorded.
ForwardCommand ==
    "O" \o priority_order_str(sorted([s \in 1..4 |-> <<s, RecordedCount(s)>>]))

(* C4: the priority command depends only on the count recorded for each    *)
(* side, not on the direction of the cycle: it is the command a Forward    *)
(* cycle sends for the same counts, and counts {1:2, 2:5, 3:5, 4:0} give   *)
(* O2314.                                                                  *)
C4_DecisionIndependentOfDirection ==
    pc = "playback" =>
        /\ LastSent = ForwardCommand
        /\ (/\ RecordedCount(1) = 2 /\ RecordedCount(2) = 5
            /\ RecordedCount(3) = 5 /\ RecordedCount(4) = 0)
           => LastSent = "O2314"

(* C5: the captures of a cycle are labelled, in visit order, 1,2,3,4 in a  *)
(* Forward cycle and 4,3,2,1 in a Reverse cycle.                           *)
C5_VisitLabels ==
    pc \in InCycle =>
        /\ Len(captured_raw_images_data) <= 4
        /\ SidesOf(captured_raw_images_data) =
              SubSeq(IF scan_is_clockwise THEN <<4, 3, 2, 1>> ELSE <<1, 2, 3, 4>>,
                     1, Len(captured_raw_images_data))

\* A Reverse cycle with all four captures made.
C5_Witness ==
    /\ pc = "analyse"
    /\ scan_is_clockwise
    /\ SidesOf(captured_raw_images_data) = <<4, 3, 2, 1>>

(* C6: in a cycle started with the link open the commands written are      *)
(* three identical turn commands, T in a Forward and R in a Reverse cycle, *)
(* one after each of the first three captures and none after the fourth,   *)
(* then one O command with a permutation of 1234 after the fourth capture; *)
(* the direction of the cycle is the loop's direction throughout.          *)
C6_CommandsOfACycle ==
    LET turn == IF scan_is_clockwise THEN "R" ELSE "T"
    IN /\ pc \in InCycle => scan_is_clockwise = is_clockwise
       /\ pc = "capture" =>
             /\ Len(captured_raw_images_data) = i
             /\ sent = Copies(i, turn)
       /\ pc \in {"wait", "settle"} =>
             /\ i < 3
             /\ Len(captured_raw_images_data) = i + 1
             /\ sent = Copies(i + 1, turn)
       /\ pc = "analyse" =>
             /\ Len(captured_raw_images_data) = 4
             /\ sent = Copies(3, turn)
       /\ (pc = "playback" \/ (pc = "returned" /\ ser_is_open)) =>
             /\ Len(sent) = 4
             /\ SubSeq(sent, 1, 3) = Copies(3, turn)
             /\ sent[4] \in PriorityCommands
       /\ pc = "playback" => sent[4] = "O" \o priority_order_str(sorted_sides)

\* A Reverse cycle that has sent its three R and its O command.
C6_Witness ==
    /\ pc = "returned"
    /\ ser_is_open
    /\ scan_is_clockwise
    /\ Len(sent) = 4
    /\ sent[1] = "R"

(* C7: in the continuous scan loop the n-th call of perform_full_scan uses *)
(* Forward when n is odd and Reverse when n is even, whatever failed in    *)
(* earlier cycles; from one cycle to the next the direction flips once and *)
(* cycle_count grows by one.                                               *)
C7_DirectionAlternates ==
    /\ pc \in InCycle \cup {"loop", "returned"} =>
          is_clockwise = (cycle_count % 2 = 0)
    /\ pc \in InCycle => scan_is_clockwise = (cycle_count % 2 = 0)

\* The third cycle runs Forward; its first wait has timed out.
C7_Witness ==
    /\ pc = "capture"
    /\ cycle_count = 3
    /\ ~scan_is_clockwise
    /\ i = 1
    /\ ~turn_done

(* C8: a wait for the acknowledgement ends in success as soon as TURN_DONE *)
(* is read: the wait loop is never continued with TURN_DONE read, the      *)
(* successful read is the last one of the wait and is followed by no poll  *)
(* sleep, so the budget left is not waited out; the settle delay is next.  *)
C8_AckEndsWaitAtOnce ==
    /\ pc = "wait" => (response # "TURN_DONE" /\ ~turn_done /\ reads = polls)
    /\ (pc = "settle" /\ turn_done) =>
          /\ response = "TURN_DONE"
          /\ reads = polls + 1
          /\ polls < MaxPolls

\* TURN_DONE read at the second poll, budget left over.
C8_Witness ==
    /\ pc = "settle"
    /\ turn_done
    /\ polls = 1
    /\ polls + 1 < MaxPolls

(* C9: without TURN_DONE the wait ends as a timeout after the bounded      *)
(* number of polls; the cycle goes on: every turn sent is followed by one  *)
(* settle delay before the next capture, whether the ack arrived or not.   *)
C9_TimeoutIsNotFatal ==
    /\ polls <= MaxPolls
    /\ reads <= MaxPolls
    /\ (pc = "settle" /\ ~turn_done) => (polls = MaxPolls /\ reads = MaxPolls)
    /\ pc \in {"wait", "settle"} => settles = i
    /\ pc = "capture" => (settles = i /\ Len(sent) = i)
    /\ pc \in {"analyse", "playback"} => settles = 3

\* The capture after a wait that timed out: the settle delay was slept.
C9_Witness ==
    /\ pc = "capture"
    /\ i = 2
    /\ ~turn_done
    /\ settles = 2

(* C10: called with the link not open, perform_full_scan returns True at   *)
(* once: no capture, no command written, no side count, no annotated       *)
(* image, and the cycle's steps are never entered.                         *)
C10_LinkNotOpenIsNoOp ==
    (~ser_is_open /\ pc # "exit") =>
        /\ pc \in {"menu", "loop", "returned"}
        /\ should_continue
        /\ sent = <<>>
        /\ captured_raw_images_data = <<>>
        /\ side_vehicle_counts = <<>>
        /\ saved_annotated_image_paths = <<>>
        /\ settles = 0

\* The second call of the loop has returned with the link not open.
C10_Witness ==
    /\ ~ser_is_open
    /\ pc = "returned"
    /\ cycle_count = 2
    /\ should_continue

-----------------------------------------------------------------------------
(* C11: once the user has raised the stop signal, the call of the cycle    *)
(* returns "stop", also when every capture of the cycle failed and when    *)
(* the link is not open.  In the model: a call that returns with the stop  *)
(* key pressed returns False.                                              *)
C11_StopObservedByEveryCall ==
    (pc = "returned" /\ stop_requested) => ~should_continue

(* C11, as the code has it: the stop key is looked at only in the playback *)
(* of a cycle that saved at least one annotated image.  A call returns     *)
(* False exactly when the key is pressed, the link is open and an image    *)
(* was saved; with every capture failed, or the link not open, it returns  *)
(* True although the key is pressed.                                       *)
C11_StopObservedInPlayback ==
    pc = "returned" =>
        (~should_continue <=>
            /\ stop_requested
            /\ ser_is_open
            /\ saved_annotated_image_paths # <<>>)

\* A call returns False with the key pressed and one image saved out of four
\* captures.
C11_Witness ==
    /\ pc = "returned"
    /\ stop_requested
    /\ ~should_continue
    /\ Len(saved_annotated_image_paths) = 1

-----------------------------------------------------------------------------
(* C12: every call of perform_full_scan with the link open terminates: for *)
(* every combination of capture failures and of arriving and missing       *)
(* acknowledgements it reaches the sending of the priority command, and    *)
(* then returns.                                                           *)
C12_CycleTerminates ==
    (pc = "loop") ~> (pc = "returned" /\ LastSent \in PriorityCommands)

\* The priority command has been sent in a cycle whose four captures failed
\* and whose last wait timed out.
C12_Witness ==
    /\ pc = "playback"
    /\ LastSent \in PriorityCommands
    /\ saved_annotated_image_paths = <<>>
    /\ ~turn_done
    /\ settles = 3

-----------------------------------------------------------------------------
(* Vocabulary of the calibration claims.                                   *)

\* The entered lines that ask to leave the session.
DoneLines == {<<"done">>, <<"DONE">>}

\* The entered lines that are a move with an integer.
MoveLines == {<<"m", "5">>, <<"M", "-200">>, <<"m", "+5">>}

\* The command a move line stands for: M followed by its integer.
ExpectedMove(line) ==
    IF line = <<"M", "-200">> THEN "M-200" ELSE "M5"

\* The error reports of the session.
ErrorMessages ==
    {"ERROR: Invalid steps value.", "ERROR: Invalid 'm' command.",
     "ERROR: Unknown command"}

\* A step of the session that reads an entered line and stays in the session.
LineRead == pc = "calib" /\ kb # <<>> /\ kb' = Tail(kb) /\ pc' = "calib"

\* A step that reads a line which is neither done nor a move.
OtherLineRead ==
    /\ pc = "calib"
    /\ kb # <<>>
    /\ kb' = Tail(kb)
    /\ Head(kb) \notin DoneLines \cup MoveLines

(* C13: in the calibration session an entered 'done' makes the session     *)
(* exit, whatever the preview does, also when every preview capture fails. *)
C13_DoneExitsCalibration ==
    (pc = "calib" /\ kb # <<>> /\ Head(kb) \in DoneLines) ~> (pc = "menu")

(* C14: P is sent once, on entry of the calibration session; a move line   *)
(* with integer n sends exactly M<n>; every other line that is not done    *)
(* sends no command, reports an error and leaves the session running.      *)
C14_CalibrationCommands ==
    [][/\ (pc = "menu" /\ pc' = "calib") => sent' = <<"P">>
       /\ (pc = "calib" /\ sent' # sent) => LineRead /\ Head(kb) \in MoveLines
       /\ (LineRead /\ Head(kb) \in MoveLines)
              => sent' = Append(sent, ExpectedMove(Head(kb)))
       /\ OtherLineRead
              => /\ sent' = sent
                 /\ calib_output' \in ErrorMessages
                 /\ pc' = "calib"]_vars

(* C14, as the code has it: a blank line (nothing, or only blanks, before  *)
(* Enter) sends no command and leaves the session running, and reports     *)
(* nothing; every other line that is neither done nor a move reports an    *)
(* error.                                                                  *)
C14_CalibrationCommandsButBlank ==
    [][/\ (pc = "menu" /\ pc' = "calib") => sent' = <<"P">>
       /\ (pc = "calib" /\ sent' # sent) => LineRead /\ Head(kb) \in MoveLines
       /\ (LineRead /\ Head(kb) \in MoveLines)
              => sent' = Append(sent, ExpectedMove(Head(kb)))
       /\ OtherLineRead
              => /\ sent' = sent
                 /\ pc' = "calib"
                 /\ IF Head(kb) = <<>>
                    THEN calib_output' = ""
                    ELSE calib_output' \in ErrorMessages]_vars

\* A move has been sent after P and then a line with two numbers was entered
\* and reported.
C14_Witness ==
    /\ pc = "calib"
    /\ sent = <<"P", "M-200">>
    /\ calib_output = "ERROR: Invalid 'm' command."
    /\ kb = <<>>

-----------------------------------------------------------------------------
(* C15: no command is sent while a wait for the previous turn's            *)
(* acknowledgement is unresolved: nothing is sent during a wait, a wait is *)
(* left only with TURN_DONE read or with its budget used up, and every     *)
(* command of a cycle after the first is sent from the capture or the      *)
(* analysis that follows such a resolved wait.                             *)
C15_NoCommandDuringWait ==
    [][/\ pc \in {"wait", "settle"} => sent' = sent
       /\ (pc = "wait" /\ pc' # "wait")
              => pc' = "settle" /\ (turn_done' \/ polls >= MaxPolls)
       /\ (pc \in InCycle /\ sent' # sent)
              => /\ pc \in {"capture", "analyse"}
                 /\ Len(sent') = Len(sent) + 1
                 /\ settles = Len(sent)]_vars

\* The third turn command has been sent after the two waits before it were
\* left and settled.
C15_Witness ==
    /\ pc = "wait"
    /\ Len(sent) = 3
    /\ settles = 2
    /\ polls = 0

-----------------------------------------------------------------------------
(* C16: when perform_full_scan returns "stop" the loop exits at once: the  *)
(* direction is not flipped, the cycle is not counted, no cycle is started *)
(* and nothing is sent.  When it returns "continue" the loop flips the     *)
(* direction, counts the cycle and starts the next one; there is no        *)
(* maximum cycle count (the step is possible at every count the model      *)
(* follows).                                                               *)
C16_LoopExitAndContinue ==
    /\ [][/\ (pc = "returned" /\ pc' # "returned" /\ ~should_continue)
                 => /\ pc' = "menu"
                    /\ is_clockwise' = is_clockwise
                    /\ cycle_count' = cycle_count
                    /\ sent' = sent
          /\ (pc = "returned" /\ pc' # "returned" /\ should_continue)
                 => /\ pc' = "loop"
                    /\ is_clockwise' = ~is_clockwise
                    /\ cycle_count' = cycle_count + 1
                    /\ sent' = sent
          /\ pc = "menu" => sent' = sent]_vars
    /\ [](pc = "returned" /\ should_continue /\ cycle_count < MaxCycles
              => ENABLED LoopContinue)
    /\ [](pc = "returned" /\ ~should_continue => ~ENABLED LoopContinue)

\* The loop has been stopped in its second cycle, which ran Reverse.
C16_Witness ==
    /\ pc = "menu"
    /\ ~should_continue
    /\ cycle_count = 2
    /\ is_clockwise
    /\ Len(sent) = 4

-----------------------------------------------------------------------------
(* C17: in a wait, every non-empty line read that is not TURN_DONE is      *)
(* printed and neither ends the wait nor sets turn_done; only the line     *)
(* TURN_DONE ends the wait with success.                                   *)
C17_InfoLinesAreSurfaced ==
    [][/\ (pc = "wait" /\ reads' = reads + 1 /\ rx # <<>>)
              => IF Head(rx) = "TURN_DONE"
                 THEN turn_done' /\ pc' = "settle" /\ info_log' = info_log
                 ELSE /\ pc' = "wait"
                      /\ ~turn_done'
                      /\ info_log' = IF Head(rx) = ""
                                     THEN info_log
                                     ELSE Append(info_log, Head(rx))
       /\ (~turn_done /\ turn_done')
              => pc = "wait" /\ rx # <<>> /\ Head(rx) = "TURN_DONE"]_vars

\* A wait has printed an informational line and then read TURN_DONE.
C17_Witness ==
    /\ pc = "settle"
    /\ turn_done
    /\ info_log = <<"INFO">>

-----------------------------------------------------------------------------
(* C18: every TURN_DONE a wait accepts was produced by the turn command    *)
(* sent just before that wait: a wait never sets turn_done on reading a    *)
(* TURN_DONE of an earlier turn that was left in the receive buffer.       *)
C18_AcceptedAckIsOfThisTurn ==
    [][(pc = "wait" /\ ~turn_done /\ turn_done') => Head(rx_fresh)]_vars

-----------------------------------------------------------------------------
(* C19: a TURN_DONE of the current turn that is in the receive buffer      *)
(* while the wait's budget still lasts makes the wait end in success,      *)
(* however many informational lines are ahead of it: the wait does not use *)
(* up its budget with that TURN_DONE delivered.                            *)
C19_DeliveredAckIsSuccess ==
    [][(/\ pc = "wait"
        /\ polls < MaxPolls
        /\ \E n \in 1..Len(rx) : rx[n] = "TURN_DONE" /\ rx_fresh[n])
           => ~(pc' = "wait" /\ polls' >= MaxPolls)]_vars

-----------------------------------------------------------------------------
(* C20: within one run of the loop, with the rig at heading 1 at the start *)
(* and every turn command moving it one quadrant (T forward, R back), the  *)
(* label given to every capture is the rig's heading, and the number of T  *)
(* sent minus the number of R sent stays within 0..3: a Reverse cycle      *)
(* starts at heading 4, where the Forward cycle before it ended.           *)
C20_LabelIsHeading ==
    /\ net_rotation \in 0..3
    /\ pc = "capture" => current_side(scan_is_clockwise, i) = 1 + net_rotation
    /\ \A n \in 1..Len(captured_raw_images_data) :
           captured_raw_images_data[n][1] =
               IF scan_is_clockwise THEN 5 - n ELSE n
    /\ (pc = "capture" /\ i = 0) => net_rotation = IF scan_is_clockwise THEN 3 ELSE 0

\* The last capture of a Reverse cycle is about to be taken at heading 1,
\* after three R undid the three T of the first cycle.
C20_Witness ==
    /\ pc = "capture"
    /\ scan_is_clockwise
    /\ cycle_count = 2
    /\ i = 3
    /\ net_rotation = 0
    /\ sent = <<"R", "R", "R">>

-----------------------------------------------------------------------------
(* C21: across runs of the continuous scan started from the menu, stopped  *)
(* after any number of cycles and started again, with the rig at heading 1 *)
(* when the program starts and every turn command moving it one quadrant,  *)
(* the label given to every capture is the rig's heading and the number of *)
(* T sent minus the number of R sent stays within 0..3.                    *)
C21_LabelIsHeadingAcrossRuns ==
    /\ rig_rotation \in 0..3
    /\ pc = "capture" => current_side(scan_is_clockwise, i) = 1 + rig_rotation

====
